---- MODULE Spec2Model ----
(***************************************************************************)
(* Model of the PaperSelect component (src/src/PaperSelect.tsx), of the    *)
(* gestures of its menu (src/src/ModalMenu.tsx) and of the option          *)
(* comparator and default extractors (src/src/util.ts).                    *)
(*                                                                         *)
(* JavaScript values are records [t, s, e]: t is the typeof-like tag,      *)
(* s the characters of a string or of a number, and e the elements of an   *)
(* array or the properties of an object.  Strings are sequences of tokens  *)
(* so that String(array) (a join with ",") is computed, not assumed.       *)
(*                                                                         *)
(* The function component closes over the values it read at its latest     *)
(* render: props, uncontrolledValue.  The hook state the setters write     *)
(* (hookValue, menuVisible) and the value the parent will pass at the next *)
(* render (nextValue) may run ahead of that closure until Render.          *)
(***************************************************************************)
EXTENDS Integers, Sequences, FiniteSets, TLC

\* ------------------------------------------------------------- bounds ----
\* longest array a parent passes as value / defaultValue
MaxSel == 1
\* most handler calls made from the callbacks of one render
MaxBatch == 2

\* ---------------------------------------------------------- JS values ----
Undefined == [t |-> "undefined", s |-> <<>>, e |-> <<>>]
Null == [t |-> "null", s |-> <<>>, e |-> <<>>]
Str(c) == [t |-> "string", s |-> c, e |-> <<>>]
\* the number n, c the characters of String(n)
Num(c) == [t |-> "number", s |-> c, e |-> <<>>]
\* an own enumerable property k: v of an object
Fld(k, v) == [t |-> "field", s |-> <<k>>, e |-> <<v>>]
\* the object with the properties fields; an object is identified with its
\* contents (the options handed around are those of the options list)
ObjOf(fields) == [t |-> "object", s |-> <<>>, e |-> fields]
\* the object option {id: c, label: 'L' + c}
Obj(c) == ObjOf(<<Fld("id", Str(c)), Fld("label", Str(<<"L">> \o c))>>)
Arr(q) == [t |-> "array", s |-> <<>>, e |-> q]

IsArray(v) == v.t = "array"
\* typeof v === 'object'
TypeofObject(v) == v.t \in {"object", "array", "null"}
IsNaN(v) == v.t = "number" /\ v.s = <<"NaN">>
\* the strings of the model that read as a number
Numerals == {<<"0">>, <<"5">>}

\* the options a caller may hand to the handlers
Universe == {Str(<<"x">>), Str(<<"y">>), Str(<<"z">>)}

\* the options collections a parent passes
OptionLists ==
    { Undefined, Arr(<<>>),
      Arr(<<Str(<<"x">>), Str(<<"y">>), Str(<<"z">>)>>),
      Arr(<<Str(<<"z">>), Str(<<"x">>)>>) }

RECURSIVE SeqsUpTo(_, _)
SeqsUpTo(S, n) ==
    IF n = 0 THEN {<<>>}
    ELSE LET P == SeqsUpTo(S, n - 1)
         IN  P \cup {Append(q, a) : q \in {p \in P : Len(p) = n - 1}, a \in S}

\* values of the declared type of value / defaultValue for each mode
SingleValues(U) == {Undefined} \cup U
MultiValues(U) == {Undefined} \cup {Arr(q) : q \in SeqsUpTo(U, MaxSel)}
TypedValues(U, multi) == IF multi THEN MultiValues(U) ELSE SingleValues(U)

\* the defaultValue props a mount is given
DefaultValues(multi) ==
    IF multi THEN {Undefined, Arr(<<Str(<<"z">>), Str(<<"x">>)>>)}
    ELSE {Undefined, Str(<<"y">>)}

\* ------------------------------------------------------------ util.ts ----
RECURSIVE Join(_, _)
\* Array.prototype.join on strings
Join(q, sep) ==
    IF q = <<>> THEN <<>>
    ELSE IF Len(q) = 1 THEN q[1]
    ELSE q[1] \o sep \o Join(Tail(q), sep)

RECURSIVE StringOf(_)
\* String(v), the primitive an operand of == is coerced to
StringOf(v) ==
    CASE v.t = "string" -> v.s
      [] v.t = "number" -> v.s
      [] v.t = "undefined" -> <<"undefined">>
      [] v.t = "null" -> <<"null">>
      [] v.t = "object" -> <<"[object Object]">>
      [] v.t = "array" ->
            Join([i \in 1..Len(v.e) |->
                    IF v.e[i].t \in {"undefined", "null"} THEN <<>>
                    ELSE StringOf(v.e[i])],
                 <<",">>)

\* Array.prototype.join on values
JoinValues(q, sep) ==
    Join([i \in 1..Len(q) |->
            IF q[i].t \in {"undefined", "null"} THEN <<>> ELSE StringOf(q[i])],
         sep)

\* Number(v) as the characters of the number
ToNumber(v) ==
    IF v.t = "number" THEN v.s
    ELSE IF StringOf(v) = <<>> THEN <<"0">>
    ELSE IF StringOf(v) \in Numerals THEN StringOf(v)
    ELSE <<"NaN">>

\* Object.keys(v): indices of an array, the property names of an object
Keys(v) ==
    IF v.t = "array" THEN {<<"idx", i>> : i \in 1..Len(v.e)}
    ELSE IF v.t = "object" THEN {<<v.e[i].s[1], 0>> : i \in 1..Len(v.e)}
    ELSE {}

\* v[k] for k a key of some value
Field(v, k) ==
    IF k \in Keys(v)
    THEN IF v.t = "array" THEN v.e[k[2]]
         ELSE v.e[CHOOSE i \in 1..Len(v.e) : v.e[i].s[1] = k[1]].e[1]
    ELSE Undefined

\* a === b
StrictEquals(a, b) == a = b /\ ~IsNaN(a)

\* mutant: no identity shortcut, the keys are always compared
shallowEqualObjectsNoRef(a, b) ==
    /\ a # Null /\ b # Null
    /\ Cardinality(Keys(a)) = Cardinality(Keys(b))
    /\ \A k \in Keys(a) :
          k \in Keys(b) /\ StrictEquals(Field(a, k), Field(b, k))

\* shallow-equal: the same reference; else false when either is null; else
\* the same number of keys and every key of a an own key of b holding a
\* === value
shallowEqualObjects(a, b) ==
    \/ a = b
    \/ /\ a # Null /\ b # Null
       /\ Cardinality(Keys(a)) = Cardinality(Keys(b))
       /\ \A k \in Keys(a) :
             k \in Keys(b) /\ StrictEquals(Field(a, k), Field(b, k))

\* a == b for operands that are not both typeof 'object'
LooseEquals(a, b) ==
    IF a.t = b.t THEN StrictEquals(a, b)
    ELSE IF a.t \in {"undefined", "null"} \/ b.t \in {"undefined", "null"}
    THEN a.t \in {"undefined", "null"} /\ b.t \in {"undefined", "null"}
    ELSE IF a.t = "number" \/ b.t = "number"
    THEN ToNumber(a) = ToNumber(b) /\ ToNumber(a) # <<"NaN">>
    ELSE StringOf(a) = StringOf(b)

optionCompare(opt1, opt2) ==
    IF TypeofObject(opt1) /\ TypeofObject(opt2)
    THEN shallowEqualObjects(opt1, opt2)
    ELSE LooseEquals(opt1, opt2)

\* JS truthiness
Truthy(v) ==
    ~ \/ v.t \in {"undefined", "null"}
      \/ (v.t = "string" /\ v.s = <<>>)
      \/ (v.t = "number" /\ v.s \in {<<"0">>, <<"NaN">>})

\* a || b
OrElse(a, b) == IF Truthy(a) THEN a ELSE b
\* a ?? b
Coalesce(a, b) == IF a.t \in {"undefined", "null"} THEN b ELSE a

objectGetProperty(obj, prop) == Field(obj, <<prop, 0>>)

defaultLabelFn(option) ==
    IF option.t = "string" THEN option
    ELSE IF /\ TypeofObject(option) /\ option # Null
            /\ objectGetProperty(option, "label") # Undefined
    THEN objectGetProperty(option, "label")
    ELSE Str(StringOf(option))

defaultValueFn(option) ==
    IF option.t = "string" THEN option
    ELSE IF /\ TypeofObject(option) /\ option # Null
            /\ OrElse(objectGetProperty(option, "value"),
                      objectGetProperty(option, "id")) # Undefined
    THEN OrElse(objectGetProperty(option, "value"),
                objectGetProperty(option, "id"))
    ELSE Str(StringOf(option))

\* the extractors of the other util module of the repository
part005_defaultValueFn(option) ==
    IF option = Undefined THEN Undefined
    ELSE IF option.t = "string" THEN option
    ELSE Coalesce(IF TypeofObject(option) /\ option # Null
                  THEN OrElse(objectGetProperty(option, "value"),
                              OrElse(objectGetProperty(option, "id"),
                                     objectGetProperty(option, "key")))
                  ELSE Undefined,
                  Str(StringOf(option)))

part005_defaultLabelFn(option) ==
    IF option = Undefined THEN Undefined
    ELSE IF option.t = "string" THEN option
    ELSE Coalesce(IF TypeofObject(option) /\ option # Null
                  THEN objectGetProperty(option, "label")
                  ELSE Undefined,
                  part005_defaultValueFn(option))

\* Array.prototype.some / filter with the comparator
Some(q, o) == \E i \in 1..Len(q) : optionCompare(q[i], o)

\* ------------------------------------------------------ PaperSelect ----
VARIABLES
    props,              \* the props of the latest render
    uncontrolledValue,  \* useState value as read by the latest render
    hookValue,          \* useState value as last written by its setter
    menuVisible,        \* useState(false), as last written by its setter
    nextValue,          \* the value prop the parent passes at the next render
    parent,             \* "store": onSelection writes the payload to value
    batch,              \* handler calls made since the latest render
    last,               \* the latest handler call and the effects it had
    env                 \* Platform.OS and whether global has a document

vars == <<props, uncontrolledValue, hookValue, menuVisible, nextValue,
          parent, batch, last, env>>

\* render-time locals of the component function
isControlled == props.value # Undefined

\* mutant: the local state wins over the value prop once it is set
valueInternalFirst ==
    IF uncontrolledValue # Undefined THEN uncontrolledValue ELSE props.value

value == IF isControlled THEN props.value ELSE uncontrolledValue

\* mutant: the default does not look at renderFn
renderMenuWebOnly ==
    IF props.renderMenu = "absent"
    THEN IF env.OS = "web" /\ env.document THEN "dropdown" ELSE "modal"
    ELSE props.renderMenu

\* the renderMenu prop, or its default
renderMenu ==
    IF props.renderMenu = "absent"
    THEN IF env.OS = "web" /\ env.document /\ ~props.renderFn
         THEN "dropdown" ELSE "modal"
    ELSE props.renderMenu

\* (value as T[]).map of a value that is not an array: a TypeError
mapThrows == props.multi /\ Truthy(value) /\ ~IsArray(value)

getLabel ==
    IF props.multi
    THEN IF Truthy(value)
         THEN Str(JoinValues([i \in 1..Len(value.e) |-> defaultLabelFn(value.e[i])],
                             <<", ">>))
         ELSE Str(<<>>)
    ELSE IF Truthy(value) THEN defaultLabelFn(value) ELSE Str(<<>>)

getValue ==
    IF props.multi
    THEN IF Truthy(value)
         THEN Str(JoinValues([i \in 1..Len(value.e) |-> defaultValueFn(value.e[i])],
                             <<", ">>))
         ELSE Str(<<>>)
    ELSE IF Truthy(value) THEN defaultValueFn(value) ELSE Str(<<>>)

assertSingle(p) ==
    /\ p.multi = FALSE
    /\ (p.value = Undefined \/ ~IsArray(p.value))
    /\ (p.defaultValue = Undefined \/ ~IsArray(p.defaultValue))

assertMulti(p) ==
    /\ p.multi = TRUE
    /\ (p.value = Undefined \/ IsArray(p.value))
    /\ (p.defaultValue = Undefined \/ IsArray(p.defaultValue))

\* the effects of a handler, in the order the code performs them
SetU(v) == [e |-> "setUncontrolledValue", v |-> v]
OnSel(v) == [e |-> "onSelection", v |-> v]
SetMenu(b) == [e |-> "setMenuVisible", v |-> IF b THEN Str(<<"true">>) ELSE Str(<<"false">>)]
Dismiss == [e |-> "Keyboard.dismiss", v |-> Undefined]
Throw == [e |-> "TypeError", v |-> Undefined]

\* mutant: the local state is never written
TrackNever(v) == <<>>

\* `if (!isControlled) setUncontrolledValue(v)`
Track(v) == IF ~isControlled THEN <<SetU(v)>> ELSE <<>>

\* mutant: a controlled clearSelected only closes the menu
clearSelectedQuiet ==
    IF isControlled THEN <<SetMenu(FALSE)>>
    ELSE <<SetU(Undefined), OnSel(Undefined), SetMenu(FALSE)>>

clearSelected ==
    Track(Undefined)
    \o (IF props.multi
        THEN IF assertMulti(props) THEN <<OnSel(Undefined)>> ELSE <<Throw>>
        ELSE IF assertSingle(props) THEN <<OnSel(Undefined)>> ELSE <<Throw>>)
    \o (IF (props.multi /\ assertMulti(props)) \/ (~props.multi /\ assertSingle(props))
        THEN <<SetMenu(FALSE)>> ELSE <<>>)

\* mutant: any option passes when there is an options collection
validAny(selected) == IsArray(props.options)

\* options?.some((option) => optionCompare(option, selected))
valid(selected) == IsArray(props.options) /\ Some(props.options.e, selected)

\* mutant: the option is appended to the selection, in call order
selectNewValueAppend(selected) ==
    Arr((IF IsArray(value) THEN value.e ELSE <<>>) \o <<selected>>)

\* options?.filter(option => value?.some(val => optionCompare(val, option))
\*                           || optionCompare(selected, option))
selectNewValue(selected) ==
    IF ~IsArray(props.options) THEN Undefined
    ELSE Arr(SelectSeq(props.options.e,
                LAMBDA option :
                    \/ (IsArray(value) /\ Some(value.e, option))
                    \/ optionCompare(selected, option)))

\* mutant: no "already selected" return
selectNoGuard(selected) ==
    IF ~valid(selected) THEN <<>>
    ELSE IF props.multi
    THEN IF ~assertMulti(props) THEN <<Throw>>
         ELSE Track(selectNewValue(selected))
              \o <<OnSel(selectNewValue(selected))>>
    ELSE IF ~assertSingle(props) THEN <<Throw>>
         ELSE Track(selected) \o <<OnSel(selected), SetMenu(FALSE)>>

\* mutant: a multi-select takes the option as its whole selection
selectReplaces(selected) ==
    IF optionCompare(value, selected) THEN <<>>
    ELSE IF ~valid(selected) THEN <<>>
    ELSE IF props.multi
    THEN IF ~assertMulti(props) THEN <<Throw>>
         ELSE Track(Arr(<<selected>>)) \o <<OnSel(Arr(<<selected>>))>>
    ELSE IF ~assertSingle(props) THEN <<Throw>>
         ELSE Track(selected) \o <<OnSel(selected), SetMenu(FALSE)>>

select(selected) ==
    IF optionCompare(value, selected) THEN <<>>
    ELSE IF ~valid(selected) THEN <<>>
    ELSE IF props.multi
    THEN IF ~assertMulti(props) THEN <<Throw>>
         ELSE Track(selectNewValue(selected))
              \o <<OnSel(selectNewValue(selected))>>
    ELSE IF ~assertSingle(props) THEN <<Throw>>
         ELSE Track(selected) \o <<OnSel(selected), SetMenu(FALSE)>>

\* mutant: the filter keeps the elements equal to the option
deselectNewValueKept(deselected) ==
    IF ~IsArray(value) THEN Undefined
    ELSE Arr(SelectSeq(value.e, LAMBDA val : optionCompare(val, deselected)))

\* (value as T[] | undefined)?.filter((val) => !optionCompare(val, deselected))
deselectNewValue(deselected) ==
    IF ~IsArray(value) THEN Undefined
    ELSE Arr(SelectSeq(value.e, LAMBDA val : ~optionCompare(val, deselected)))

\* mutant: deselecting closes the menu, as a single-mode select does
deselectCloses(deselected) ==
    IF props.multi
    THEN IF ~assertMulti(props) THEN <<Throw>>
         ELSE Track(deselectNewValue(deselected))
              \o <<OnSel(deselectNewValue(deselected)), SetMenu(FALSE)>>
    ELSE <<>>

\* mutant: a single-select clears when its selected option is deselected
deselectSingleClears(deselected) ==
    IF props.multi
    THEN IF ~assertMulti(props) THEN <<Throw>>
         ELSE Track(deselectNewValue(deselected))
              \o <<OnSel(deselectNewValue(deselected))>>
    ELSE IF optionCompare(value, deselected)
         THEN Track(Undefined) \o <<OnSel(Undefined)>>
         ELSE <<>>

deselect(deselected) ==
    IF props.multi
    THEN IF ~assertMulti(props) THEN <<Throw>>
         ELSE Track(deselectNewValue(deselected))
              \o <<OnSel(deselectNewValue(deselected))>>
    ELSE <<>>

\* mutant: openMenu opens whatever the props say
openMenuAlways == <<Dismiss, SetMenu(TRUE)>>

openMenu ==
    IF renderMenu # "false" /\ ~props.disabled
    THEN <<Dismiss, SetMenu(TRUE)>>
    ELSE <<>>

closeMenu == <<SetMenu(FALSE)>>

\* the payloads / arguments of the effects of one kind, in order
Of(effects, kind) ==
    LET q == SelectSeq(effects, LAMBDA f : f.e = kind)
    IN  [i \in 1..Len(q) |-> q[i].v]

LastOr(q, d) == IF q = <<>> THEN d ELSE q[Len(q)]

\* one handler call from the callbacks of the latest render: React records
\* the setter calls, the parent's onSelection runs synchronously
Call(op, arg, effects) ==
    /\ batch < MaxBatch
    /\ batch' = batch + 1
    /\ hookValue' = LastOr(Of(effects, "setUncontrolledValue"), hookValue)
    /\ menuVisible' =
          (LastOr(Of(effects, "setMenuVisible"),
                  IF menuVisible THEN Str(<<"true">>) ELSE Str(<<"false">>))
             = Str(<<"true">>))
    /\ nextValue' = IF parent = "store"
                    THEN LastOr(Of(effects, "onSelection"), nextValue)
                    ELSE nextValue
    /\ last' = [op |-> op, arg |-> arg, effects |-> effects,
                controlled |-> isControlled, visible |-> menuVisible,
                rendered |-> FALSE]
    /\ UNCHANGED <<props, uncontrolledValue, parent, env>>

Select == \E o \in Universe : Call("select", o, select(o))
Deselect == \E o \in Universe : Call("deselect", o, deselect(o))
ClearSelected == Call("clearSelected", Undefined, clearSelected)
OpenMenu == Call("openMenu", Undefined, openMenu)
CloseMenu == Call("closeMenu", Undefined, closeMenu)

\* mutant: an empty local state is seeded again from defaultValue
RenderWithReseed(p) ==
    /\ props' = p
    /\ uncontrolledValue' = Coalesce(hookValue, p.defaultValue)
    /\ batch' = 0
    /\ UNCHANGED <<hookValue, menuVisible, parent, env>>

\* the component function runs again: it reads the props the parent passes
\* and the hook state
RenderWith(p) ==
    /\ props' = p
    /\ uncontrolledValue' = hookValue
    /\ batch' = 0
    /\ UNCHANGED <<hookValue, menuVisible, parent, env>>

Render ==
    /\ batch > 0
    /\ RenderWith([props EXCEPT !.value = nextValue])
    /\ last' = [last EXCEPT !.rendered = TRUE]
    /\ UNCHANGED nextValue

\* what the parent did: no handler has run since
NoCall(op, arg) ==
    [op |-> op, arg |-> arg, effects |-> <<>>, controlled |-> FALSE,
     visible |-> FALSE, rendered |-> TRUE]

\* the parent re-renders with other props (its render renders the child),
\* once the updates of the running event are flushed
ParentRender(p, op, arg) ==
    /\ batch = 0
    /\ RenderWith(p)
    /\ nextValue' = p.value
    /\ last' = NoCall(op, arg)

ParentSetValue ==
    /\ parent = "free"
    /\ \E v \in TypedValues(Universe, props.multi) :
          /\ v # nextValue
          /\ ParentRender([props EXCEPT !.value = v], "setValue", props.value)

ParentSetOptions ==
    \E l \in OptionLists :
       /\ l # props.options
       /\ ParentRender([props EXCEPT !.options = l], "setOptions", Undefined)

ParentSetDisabled ==
    ParentRender([props EXCEPT !.disabled = ~props.disabled],
                 "setDisabled", Undefined)

ParentSetDefaultValue ==
    \E d \in DefaultValues(props.multi) :
       /\ d # props.defaultValue
       /\ ParentRender([props EXCEPT !.defaultValue = d],
                       "setDefaultValue", Undefined)

ParentSetRenderMenu ==
    \E m \in {"modal", "dropdown", "false"} :
       /\ m # props.renderMenu
       /\ ParentRender([props EXCEPT !.renderMenu = m], "setRenderMenu", Undefined)

\* the props of a mount, of the declared types.  multi: TRUE for true or
\* 'checkboxes', FALSE for false or absent; renderFn, label: whether one is
\* supplied; noneOption: the default label or false
TypedProps ==
    { p \in [multi : BOOLEAN,
             value : SingleValues(Universe) \cup MultiValues(Universe),
             defaultValue : DefaultValues(TRUE) \cup DefaultValues(FALSE),
             options : OptionLists, disabled : BOOLEAN,
             renderMenu : {"modal", "dropdown", "false", "absent"},
             renderFn : BOOLEAN, label : BOOLEAN,
             noneOption : {"(None)", "false"}] :
        /\ p.value \in TypedValues(Universe, p.multi)
        /\ p.defaultValue \in DefaultValues(p.multi) }

\* the environments the bundle runs in
Envs == [OS : {"web", "ios"}, document : BOOLEAN]

\* a native environment and a custom anchor, which calls the handlers
CustomAnchor(p) ==
    /\ env = [OS |-> "ios", document |-> FALSE]
    /\ p.renderFn /\ ~p.label /\ p.noneOption = "(None)"

\* the props of a mount that TypeScript did not check: value and
\* defaultValue of any shape
UntypedProps ==
    [multi : BOOLEAN,
     value : SingleValues(Universe) \cup MultiValues(Universe),
     defaultValue : DefaultValues(TRUE) \cup DefaultValues(FALSE),
     options : {Arr(<<Str(<<"x">>), Str(<<"y">>), Str(<<"z">>)>>)},
     disabled : {FALSE}, renderMenu : {"modal"},
     renderFn : BOOLEAN, label : {FALSE}, noneOption : {"(None)"}]

\* whether the component function raises a TypeError: getValue() maps the
\* selection of a multi-select; renderAnchor asserts the props, but only on
\* its renderFn branch
renderThrows ==
    \/ mapThrows
    \/ /\ props.renderFn
       /\ ~(IF props.multi THEN assertMulti(props) ELSE assertSingle(props))

\* the state after the first render
Mount(p) ==
    /\ props = p
    /\ uncontrolledValue = Coalesce(p.value, p.defaultValue)
    /\ hookValue = uncontrolledValue
    /\ menuVisible = FALSE
    /\ nextValue = p.value
    /\ batch = 0
    /\ last = [NoCall("mount", Undefined) EXCEPT
                  !.effects = IF renderThrows THEN <<Throw>> ELSE <<>>]

\* ------------------------------------------------- specifications ----
\* Selection: an enabled select with a modal menu; the parent changes
\* value and options.
Init ==
    /\ parent \in {"free", "store"}
    /\ \E p \in TypedProps :
          /\ ~p.disabled
          /\ p.renderMenu = "modal"
          /\ CustomAnchor(p)
          /\ Mount(p)

Next ==
    \/ Select
    \/ Deselect
    \/ ClearSelected
    \/ OpenMenu
    \/ CloseMenu
    \/ Render
    \/ ParentSetValue
    \/ ParentSetOptions

Spec == Init /\ [][Next]_vars

\* Menu: the parent also changes disabled, renderMenu and defaultValue; it stores the
\* payloads of onSelection and passes three options.
InitMenu ==
    /\ parent = "store"
    /\ \E p \in TypedProps :
          /\ p.options = Arr(<<Str(<<"x">>), Str(<<"y">>), Str(<<"z">>)>>)
          /\ p.renderMenu # "absent"
          /\ CustomAnchor(p)
          /\ Mount(p)

NextMenu ==
    \/ Select
    \/ Deselect
    \/ ClearSelected
    \/ OpenMenu
    \/ CloseMenu
    \/ Render
    \/ ParentSetDisabled
    \/ ParentSetRenderMenu
    \/ ParentSetDefaultValue

SpecMenu == InitMenu /\ [][NextMenu]_vars

\* the first render returned: the component is mounted
Mounted ==
    ~(last.op = "mount" /\ \E i \in 1..Len(last.effects) : last.effects[i] = Throw)

\* Boundary: props of any shape, with and without a renderFn; the parent
\* stores the payloads or ignores them.
InitBoundary ==
    /\ parent \in {"free", "store"}
    /\ env = [OS |-> "ios", document |-> FALSE]
    /\ \E p \in UntypedProps : Mount(p)

NextBoundary ==
    \/ Mounted /\ Select
    \/ Mounted /\ Deselect
    \/ Mounted /\ ClearSelected
    \/ Mounted /\ OpenMenu
    \/ Mounted /\ CloseMenu
    \/ Render

SpecBoundary == InitBoundary /\ [][NextBoundary]_vars

\* util.ts called on its own ---------------------------------------------
\* no property of that name
Absent == [t |-> "absent", s |-> <<>>, e |-> <<>>]

\* what a property k of an option may hold: a string naming the
\* property, the empty string, numbers, null
Contents(k) ==
    {Absent, Str(<<k>>), Str(<<>>), Num(<<"5">>), Num(<<"NaN">>), Null}

FldOpt(k, c) == IF c = Absent THEN <<>> ELSE <<Fld(k, c)>>

\* the objects with any subset of the properties value, id, key, label
ObjectOptions ==
    { ObjOf(FldOpt("value", v) \o FldOpt("id", i)
            \o FldOpt("key", k) \o FldOpt("label", l)) :
        v \in Contents("value"), i \in Contents("id"),
        k \in Contents("key"), l \in Contents("label") }

\* options that are not objects
PlainOptions ==
    { Undefined, Null, Str(<<"x">>), Str(<<>>), Str(<<"5">>),
      Num(<<"0">>), Num(<<"5">>), Num(<<"NaN">>),
      Arr(<<>>), Arr(<<Str(<<"x">>)>>), Arr(<<Num(<<"5">>)>>) }

\* the value a function returned
Return(v) == [e |-> "return", v |-> v]
Bool(b) == IF b THEN Str(<<"true">>) ELSE Str(<<"false">>)

\* a call of a function of util.ts, which touches no state: one call on
\* each input shows all it does
Apply(op, arg, result) ==
    /\ last.op = "mount"
    /\ last' = [op |-> op, arg |-> arg, effects |-> <<Return(result)>>,
                controlled |-> isControlled, visible |-> menuVisible,
                rendered |-> FALSE]
    /\ UNCHANGED <<props, uncontrolledValue, hookValue, menuVisible,
                   nextValue, parent, batch, env>>

ApplyDefaultValueFn ==
    \E o \in ObjectOptions \cup PlainOptions :
       Apply("defaultValueFn", o, defaultValueFn(o))

ApplyDefaultLabelFn ==
    \E o \in ObjectOptions \cup PlainOptions :
       Apply("defaultLabelFn", o, defaultLabelFn(o))

ApplyPart005DefaultValueFn ==
    \E o \in ObjectOptions \cup PlainOptions :
       Apply("part_005 defaultValueFn", o, part005_defaultValueFn(o))

ApplyPart005DefaultLabelFn ==
    \E o \in ObjectOptions \cup PlainOptions :
       Apply("part_005 defaultLabelFn", o, part005_defaultLabelFn(o))

\* an option with itself, or two plain options
ApplyOptionCompare ==
    \/ \E o \in ObjectOptions \cup PlainOptions :
          Apply("optionCompare", Arr(<<o, o>>), Bool(optionCompare(o, o)))
    \/ \E a \in PlainOptions, b \in PlainOptions \cup {Obj(<<"a">>)} :
          Apply("optionCompare", Arr(<<a, b>>), Bool(optionCompare(a, b)))

\* Utilities: the extractors and the comparator applied to options of
\* every kind, next to a mounted select whose options are objects.
InitUtil ==
    /\ parent = "store"
    /\ env = [OS |-> "ios", document |-> FALSE]
    /\ \E p \in TypedProps :
          /\ p.value = Undefined /\ p.defaultValue = Undefined
          /\ p.options = Arr(<<Str(<<"x">>), Str(<<"y">>), Str(<<"z">>)>>)
          /\ ~p.disabled /\ p.renderMenu = "modal"
          /\ p.renderFn /\ ~p.label /\ p.noneOption = "(None)"
          /\ Mount(p)

NextUtil ==
    \/ ApplyDefaultValueFn
    \/ ApplyDefaultLabelFn
    \/ ApplyPart005DefaultValueFn
    \/ ApplyPart005DefaultLabelFn
    \/ ApplyOptionCompare

SpecUtil == InitUtil /\ [][NextUtil]_vars

\* ModalMenu.tsx --------------------------------------------------------
\* renderModalItem: whether the row of option shows as selected
isSelected(option) ==
    IF IsArray(value)
    THEN \E i \in 1..Len(value.e) : optionCompare(option, value.e[i])
    ELSE optionCompare(option, value)

\* the Modal of the latest render is on screen; a gesture is an event of
\* its own, which React renders after
MenuShown == batch = 0 /\ renderMenu # "false" /\ menuVisible

\* a row of the list: a selected row deselects, any other selects
PressItem ==
    /\ MenuShown
    /\ IsArray(props.options)
    /\ \E i \in 1..Len(props.options.e) :
          LET option == props.options.e[i]
          IN  IF isSelected(option)
              THEN Call("deselect", option, deselect(option))
              ELSE Call("select", option, select(option))

\* the none row: `mode === 'dropdown' && noneOption ? noneItem : null`
PressNone ==
    /\ MenuShown
    /\ renderMenu = "dropdown" /\ props.noneOption # "false"
    /\ Call("clearSelected", Undefined, clearSelected)

\* the footer: `mode === 'modal' && label ? modalFooter : null`
PressClear ==
    /\ MenuShown
    /\ renderMenu = "modal" /\ props.label
    /\ Call("clearSelected", Undefined, clearSelected)

PressOk ==
    /\ MenuShown
    /\ renderMenu = "modal" /\ props.label
    /\ Call("closeMenu", Undefined, closeMenu)

\* Modal.onDismiss
DismissMenu ==
    /\ MenuShown
    /\ Call("closeMenu", Undefined, closeMenu)

\* TextInputAnchor.onPress of the default anchor, or the openMenu handed to
\* renderFn called by the custom anchor
PressAnchor ==
    /\ batch = 0
    /\ Call("openMenu", Undefined, openMenu)

\* the deselect handed to renderFn, called by the custom anchor with any
\* option
AnchorDeselect ==
    /\ props.renderFn
    /\ batch = 0
    /\ Deselect

\* Presentation: every combination of renderMenu, renderFn, label,
\* noneOption, disabled and environment; the handlers run from the gestures
\* of the anchor and of the menu.
InitUI ==
    /\ parent = "store"
    /\ env \in Envs
    /\ \E p \in TypedProps :
          /\ p.options = Arr(<<Str(<<"z">>), Str(<<"x">>)>>)
          /\ p.defaultValue = Undefined
          /\ Mount(p)

NextUI ==
    \/ PressAnchor
    \/ PressItem
    \/ PressNone
    \/ PressClear
    \/ PressOk
    \/ DismissMenu
    \/ AnchorDeselect
    \/ Render
    \/ ParentSetDisabled

SpecUI == InitUI /\ [][NextUI]_vars

\* options of every kind the type admits (T extends NonNullable<any>):
\* objects, a number, a string
KindOptions ==
    Arr(<<Obj(<<"a">>), Num(<<"0">>), Str(<<"x">>), Obj(<<"b">>)>>)

KindUniverse == {KindOptions.e[i] : i \in 1..Len(KindOptions.e)}

\* Kinds: a select over options of several kinds, with the default anchor
\* and a modal menu with its footer; the selection changes by the gestures
\* of the menu.
InitKinds ==
    /\ parent \in {"free", "store"}
    /\ env = [OS |-> "ios", document |-> FALSE]
    /\ \E multi \in BOOLEAN :
       \E v \in TypedValues(KindUniverse, multi) :
          Mount([multi |-> multi, value |-> v, defaultValue |-> Undefined,
                 options |-> KindOptions, disabled |-> FALSE,
                 renderMenu |-> "modal", renderFn |-> FALSE, label |-> TRUE,
                 noneOption |-> "(None)"])

NextKinds ==
    \/ PressAnchor
    \/ PressItem
    \/ PressClear
    \/ PressOk
    \/ Render

SpecKinds == InitKinds /\ [][NextKinds]_vars

RECURSIVE SubSeqs(_)
\* the subsequences of q
SubSeqs(q) ==
    IF q = <<>> THEN {<<>>}
    ELSE LET R == SubSeqs(Tail(q))
         IN  R \cup {<<Head(q)>> \o r : r \in R}

\* the selection of an uncontrolled multi-select, then one option that is
\* not in it selected and, after the render, deselected
RoundTripSelect ==
    /\ batch = 0
    /\ last.op \in {"mount", "openMenu"}
    /\ \E a \in Universe :
          /\ IsArray(props.options) /\ Some(props.options.e, a)
          /\ ~(IsArray(value) /\ Some(value.e, a))
          /\ Call("select", a, select(a))

RoundTripDeselect ==
    /\ batch = 0
    /\ last.op = "select"
    /\ Call("deselect", last.arg, deselect(last.arg))

RoundTripOpenMenu == last.op = "mount" /\ OpenMenu

\* Round trip: an uncontrolled multi-select whose parent ignores the
\* payloads, mounted with any selection made of its options in their
\* order, or with none.
InitRoundTrip ==
    /\ parent = "free"
    /\ env = [OS |-> "ios", document |-> FALSE]
    /\ \E l \in {Arr(<<Str(<<"x">>), Str(<<"y">>), Str(<<"z">>)>>),
                 Arr(<<Str(<<"z">>), Str(<<"x">>)>>)} :
       \E S \in {Undefined} \cup {Arr(r) : r \in SubSeqs(l.e)} :
          Mount([multi |-> TRUE, value |-> Undefined, defaultValue |-> S,
                 options |-> l, disabled |-> FALSE, renderMenu |-> "modal",
                 renderFn |-> TRUE, label |-> FALSE, noneOption |-> "(None)"])

NextRoundTrip ==
    \/ RoundTripOpenMenu
    \/ RoundTripSelect
    \/ RoundTripDeselect
    \/ Render

SpecRoundTrip == InitRoundTrip /\ [][NextRoundTrip]_vars

\* ----------------------------------------------------------- claims ----
\* A state with ~last.rendered follows a handler call directly: props,
\* value and isControlled are still those of the render the call was made
\* from, hookValue / menuVisible / nextValue are what the call left.

\* the onSelection payloads of the latest call
calls == Of(last.effects, "onSelection")

AfterCall(op) == last.op = op /\ ~last.rendered
AfterCallAndRender(op) == last.op = op /\ last.rendered

\* o is a member of the options collection by the comparator
Member(o) ==
    /\ props.options.t = "array"
    /\ \E i \in 1..Len(props.options.e) : optionCompare(props.options.e[i], o)

\* the call made no setter call, no callback and raised nothing, so that
\* the hook state and the parent's value are what they were
NothingDone ==
    /\ last.effects = <<>>
    /\ menuVisible = last.visible
    /\ (batch = 1 => hookValue = uncontrolledValue /\ nextValue = props.value)

\* C1: select(o) with o not a member of options (options undefined or
\* empty included) changes neither the selection nor the internal
\* uncontrolled selection nor menuVisible, raises nothing and does not
\* invoke onSelection.
C1_SelectNonMemberRejected ==
    (AfterCall("select") /\ ~Member(last.arg)) => NothingDone

C1_Witness ==
    /\ AfterCall("select")
    /\ ~Member(last.arg)
    /\ props.options.t = "array" /\ Len(props.options.e) > 0
    /\ ~optionCompare(value, last.arg)
    /\ last.visible /\ menuVisible
    /\ batch = 1

\* C2: uncontrolled single mode, menu open: select(o) for a member o that
\* is not the current selection makes the selection o, invokes
\* onSelection(o) exactly once and closes the menu; after the next render
\* the anchor label is labelFn(o).
C2_SingleSelectCommits ==
    /\ ( /\ AfterCall("select")
         /\ ~props.multi /\ ~isControlled /\ last.visible
         /\ Member(last.arg) /\ ~optionCompare(value, last.arg) )
       => /\ hookValue = last.arg
          /\ calls = <<last.arg>>
          /\ ~menuVisible
    /\ ( /\ AfterCallAndRender("select")
         /\ ~props.multi /\ ~last.controlled /\ last.visible
         /\ calls = <<last.arg>> )
       => /\ value = last.arg
          /\ getLabel = defaultLabelFn(last.arg)
          /\ ~menuVisible

C2_Witness ==
    /\ AfterCallAndRender("select")
    /\ ~props.multi /\ ~last.controlled /\ last.visible
    /\ props.options = Arr(<<Str(<<"x">>), Str(<<"y">>), Str(<<"z">>)>>)
    /\ props.defaultValue = Undefined
    /\ last.arg = Str(<<"y">>)
    /\ calls = <<Str(<<"y">>)>>
    /\ getLabel = Str(<<"y">>)
    /\ ~menuVisible

\* the latest call was a select of a member that the comparator does not
\* find equal to the selection its render resolved
SelectAccepted ==
    Member(last.arg) /\ ~optionCompare(value, last.arg)

\* C3 as stated: single mode, controlled or not: after an accepted
\* select(a) and a render, select(a) is a no-op (no onSelection, menuVisible
\* unchanged), so onSelection is invoked once in total.
C3_SecondSelectNoOpAnyMode ==
    [][ ( /\ AfterCallAndRender("select")
          /\ ~props.multi
          /\ calls = <<last.arg>>
          /\ batch' = batch + 1
          /\ last'.op = "select" /\ last'.arg = last.arg )
        => /\ last'.effects = <<>>
           /\ menuVisible' = menuVisible ]_vars

\* C3 (amended): single mode, uncontrolled or controlled by a parent that
\* stores every onSelection payload into value: the first select(a) of a
\* member that is not selected invokes onSelection(a) once and closes the
\* menu; after a render a second select(a) is a no-op.
C3_SecondSelectNoOp ==
    [][ /\ ( /\ batch' = batch + 1
             /\ last'.op = "select"
             /\ ~props.multi
             /\ Member(last'.arg) /\ ~optionCompare(value, last'.arg) )
           => /\ Of(last'.effects, "onSelection") = <<last'.arg>>
              /\ ~menuVisible'
        /\ ( /\ AfterCallAndRender("select")
             /\ ~props.multi
             /\ calls = <<last.arg>>
             /\ (~last.controlled \/ parent = "store")
             /\ batch' = batch + 1
             /\ last'.op = "select" /\ last'.arg = last.arg )
           => /\ last'.effects = <<>>
              /\ menuVisible' = menuVisible ]_vars

\* the second select(a), made with the menu reopened
C3_Witness ==
    /\ AfterCall("select")
    /\ ~props.multi
    /\ batch = 2
    /\ last.effects = <<>>
    /\ last.visible /\ menuVisible
    /\ value = last.arg
    /\ Member(last.arg)

\* the options that are elements of the selection or are o, in options order
InOptionsOrder(sel, o) ==
    Arr(SelectSeq(props.options.e,
           LAMBDA opt : \/ opt = o
                        \/ (sel.t = "array" /\ \E i \in 1..Len(sel.e) : sel.e[i] = opt)))

\* the selection without the elements that are o
Without(sel, o) ==
    IF sel.t = "array" THEN Arr(SelectSeq(sel.e, LAMBDA el : el # o))
    ELSE Undefined

\* C4: uncontrolled multi mode: an accepted select(o) stores, and passes
\* to onSelection, the subsequence of options whose members are in the
\* selection its render resolved or are o (options order, not call order);
\* deselect(a) stores the selection without a.
C4_MultiSelectFollowsOptionsOrder ==
    /\ (AfterCall("select") /\ props.multi /\ ~isControlled /\ SelectAccepted)
       => /\ hookValue = InOptionsOrder(value, last.arg)
          /\ calls = <<InOptionsOrder(value, last.arg)>>
    /\ (AfterCall("select") /\ props.multi /\ ~isControlled /\ last.effects # <<>>)
       => SelectAccepted
    /\ (AfterCall("deselect") /\ props.multi /\ ~isControlled)
       => hookValue = Without(value, last.arg)

\* options ['x','y','z'], 'z' selected, then select('x'): ['x','z']
C4_Witness ==
    /\ AfterCall("select")
    /\ props.multi /\ ~isControlled
    /\ props.defaultValue = Undefined
    /\ props.options = Arr(<<Str(<<"x">>), Str(<<"y">>), Str(<<"z">>)>>)
    /\ value = Arr(<<Str(<<"z">>)>>)
    /\ last.arg = Str(<<"x">>)
    /\ hookValue = Arr(<<Str(<<"x">>), Str(<<"z">>)>>)
    /\ calls = <<Arr(<<Str(<<"x">>), Str(<<"z">>)>>)>>

\* C5 as stated: after clearSelected() and the following render the
\* resolved selection is undefined and the menu is closed, in every mode.
C5_ClearYieldsUndefined ==
    AfterCallAndRender("clearSelected") => (value = Undefined /\ ~menuVisible)

\* the texts of a selection, from the strings of its options
TextOf(sel) ==
    IF sel.t = "array"
    THEN Str(Join([i \in 1..Len(sel.e) |-> sel.e[i].s], <<", ">>))
    ELSE sel

\* C6: controlled mode: when the value prop changes from a defined value
\* to another defined value, the render shows the new prop value as the
\* selection, the anchor label and the accessibility value text, whatever
\* the internal uncontrolled state holds.
C6_ControlledShowsNewProp ==
    (last.op = "setValue" /\ last.arg # Undefined /\ props.value # Undefined)
    => /\ value = props.value
       /\ getLabel = TextOf(props.value)
       /\ getValue = TextOf(props.value)

C6_Witness ==
    /\ last.op = "setValue"
    /\ last.arg # Undefined /\ props.value # Undefined
    /\ uncontrolledValue # Undefined
    /\ uncontrolledValue # props.value
    /\ uncontrolledValue # last.arg
    /\ getLabel # Str(<<>>)

\* C7 as stated: in controlled mode the internal uncontrolled selection
\* equals the external value after every render and every operation.
C7_InternalMirrorsExternal ==
    isControlled => (uncontrolledValue = props.value /\ hookValue = props.value)

\* every setMenuVisible of the call comes after an onSelection
NotifiedBeforeClose ==
    \A j \in 1..Len(last.effects) :
        last.effects[j].e = "setMenuVisible"
        => \E i \in 1..(j - 1) : last.effects[i].e = "onSelection"

Raised == \E i \in 1..Len(last.effects) : last.effects[i].e = "TypeError"

\* C8: a select of a member that is not the selection, a multi-mode
\* deselect and a clearSelected each invoke onSelection exactly once within
\* the call, with the new selection (undefined for clearSelected),
\* controlled or not; single-mode select and clearSelected notify before
\* they close the menu.
C8_AcceptedNotifiesOnce ==
    /\ (AfterCall("select") /\ SelectAccepted)
       => /\ calls = <<IF props.multi THEN InOptionsOrder(value, last.arg)
                       ELSE last.arg>>
          /\ ~Raised
          /\ NotifiedBeforeClose
          /\ (~props.multi => ~menuVisible)
    /\ (AfterCall("deselect") /\ props.multi)
       => (calls = <<Without(value, last.arg)>> /\ ~Raised)
    /\ AfterCall("clearSelected")
       => /\ calls = <<Undefined>>
          /\ ~Raised
          /\ NotifiedBeforeClose
          /\ ~menuVisible

\* a controlled clearSelected with the menu open
C8_Witness ==
    /\ AfterCall("clearSelected")
    /\ isControlled
    /\ last.visible
    /\ last.effects = <<OnSel(Undefined), SetMenu(FALSE)>>

\* C9 as stated: onSelection is never invoked by a call that is rejected or
\* that leaves the resolved selection as it was.
C9_NoCallbackWithoutChange ==
    (~last.rendered /\ calls # <<>>)
    => /\ \A i \in 1..Len(calls) : calls[i] # value
       /\ last.op \in {"select", "deselect", "clearSelected"}
       /\ (last.op = "select" => Member(last.arg))

\* the step is a handler call op
Calls(op) == batch' = batch + 1 /\ last'.op = op

\* the step is an accepted single-mode select
CallsSingleSelect ==
    /\ Calls("select")
    /\ ~props.multi
    /\ Member(last'.arg) /\ ~optionCompare(value, last'.arg)

\* C10: menuVisible is false at mount; only openMenu makes it true; only
\* closeMenu, an accepted single-mode select and clearSelected make it
\* false, and they always do; a multi-mode select and every deselect leave
\* it as it is; openMenu of an enabled select with a menu opens it again
\* after every close.
C10_MenuLifecycle ==
    /\ ~menuVisible
    /\ [][ /\ (~menuVisible /\ menuVisible') => Calls("openMenu")
           /\ (menuVisible /\ ~menuVisible')
              => \/ Calls("closeMenu")
                 \/ Calls("clearSelected")
                 \/ CallsSingleSelect
           /\ (Calls("closeMenu") \/ Calls("clearSelected") \/ CallsSingleSelect)
              => ~menuVisible'
           /\ (Calls("deselect") \/ (Calls("select") /\ props.multi))
              => menuVisible' = menuVisible
           /\ (Calls("openMenu") /\ ~props.disabled /\ props.renderMenu # "false")
              => menuVisible' ]_vars

\* a multi-mode select that commits with the menu open, which stays open
C10_Witness ==
    /\ AfterCall("select")
    /\ props.multi
    /\ calls # <<>>
    /\ last.visible /\ menuVisible

C12_RenderFnIgnoresDisabled ==
    (AfterCall("openMenu") /\ props.renderFn /\ props.renderMenu # "false")
    => menuVisible

\* multi disagrees with the shape of a defined value or defaultValue
Mismatch ==
    \/ props.value # Undefined /\ (props.multi # (props.value.t = "array"))
    \/ /\ props.defaultValue # Undefined
       /\ props.multi # (props.defaultValue.t = "array")

\* C13 as stated: a configuration in which multi disagrees with the shape
\* of a defined value or defaultValue raises a TypeError at the first
\* render: it never renders successfully, so no operation runs on it and
\* nothing is committed.
C13_MismatchFailsFast ==
    Mismatch
    => /\ last.op = "mount"
       /\ Raised
       /\ hookValue = uncontrolledValue

\* C14: the local selection is seeded at mount from value ?? defaultValue;
\* a later change of the defaultValue prop changes neither the resolved
\* selection nor the local state nor menuVisible, and invokes no
\* onSelection.
C14_SeededOnceAtMount ==
    /\ (last.op = "mount"
        => /\ hookValue = uncontrolledValue
           /\ uncontrolledValue = (IF props.value.t \in {"undefined", "null"}
                                   THEN props.defaultValue ELSE props.value))
    /\ [][ props'.defaultValue # props.defaultValue
           => /\ value' = value
              /\ uncontrolledValue' = uncontrolledValue
              /\ hookValue' = hookValue
              /\ menuVisible' = menuVisible
              /\ nextValue' = nextValue
              /\ Of(last'.effects, "onSelection") = <<>> ]_vars

\* uncontrolled with nothing selected: a defaultValue given later is not
\* taken up
C14_Witness ==
    /\ last.op = "setDefaultValue"
    /\ ~isControlled
    /\ props.defaultValue # Undefined
    /\ value = Undefined

\* C18: an absent renderMenu resolves to 'dropdown' exactly when the
\* platform is web, global has a document and no renderFn is supplied, and
\* to 'modal' otherwise; a supplied renderMenu is used as given.  The none
\* row is a gesture of the dropdown, the footer one of the modal.
C18_RenderMenuDefault ==
    /\ props.renderMenu = "absent"
       => /\ renderMenu \in {"dropdown", "modal"}
          /\ renderMenu = "dropdown"
             <=> (env.OS = "web" /\ env.document /\ ~props.renderFn)
    /\ props.renderMenu # "absent" => renderMenu = props.renderMenu
    /\ (AfterCall("clearSelected") /\ props.renderMenu = "absent" /\ ~props.label)
       => (env.OS = "web" /\ env.document /\ ~props.renderFn)

\* the none row of a dropdown that no prop asked for
C18_Witness ==
    /\ AfterCall("clearSelected")
    /\ props.renderMenu = "absent"
    /\ ~props.label
    /\ last.visible
    /\ env = [OS |-> "web", document |-> TRUE]

\* C19 as stated: with noneOption false no gesture of the menu invokes
\* clearSelected, in either presentation, with or without a label, and
\* no gesture makes the selection undefined.
C19_NoClearWithoutNoneOption ==
    (props.noneOption = "false" /\ ~last.rendered)
    => /\ last.op # "clearSelected"
       /\ ~props.renderFn => \A i \in 1..Len(calls) : calls[i] # Undefined

\* the value the latest function call returned
result == last.effects[1].v

Applied(op) == last.op = op /\ last.effects # <<>> /\ last.effects[1].e = "return"

Has(o, k) == o.t = "object" /\ \E i \in 1..Len(o.e) : o.e[i].s = <<k>>
Get(o, k) == o.e[CHOOSE i \in 1..Len(o.e) : o.e[i].s = <<k>>].e[1]

\* the first present of the properties value, id, key
FirstPresent(o) ==
    IF Has(o, "value") THEN Get(o, "value")
    ELSE IF Has(o, "id") THEN Get(o, "id")
    ELSE Get(o, "key")

\* C15 as stated: the default value extractor returns a string option
\* itself; for an object the first present of its properties value, id,
\* key, a present value winning also when it is empty or falsy; for
\* anything else, or an object with none of them, the string coercion.
C15_FirstPresentField ==
    (Applied("defaultValueFn") \/ Applied("part_005 defaultValueFn"))
    => result = (IF last.arg.t = "string" THEN last.arg
                 ELSE IF Has(last.arg, "value") \/ Has(last.arg, "id")
                         \/ Has(last.arg, "key")
                 THEN FirstPresent(last.arg)
                 ELSE Str(StringOf(last.arg)))

\* C16 as stated: the default label extractor returns a string option
\* itself, the label property of an object that has one, and in every
\* other case what the default value extractor returns for the option.
C16_LabelFallsBackToValue ==
    /\ Applied("defaultLabelFn")
       => result = (IF last.arg.t = "string" THEN last.arg
                    ELSE IF Has(last.arg, "label") THEN Get(last.arg, "label")
                    ELSE defaultValueFn(last.arg))
    /\ Applied("part_005 defaultLabelFn")
       => result = (IF last.arg.t = "string" THEN last.arg
                    ELSE IF Has(last.arg, "label") THEN Get(last.arg, "label")
                    ELSE part005_defaultValueFn(last.arg))

\* C17 as stated: for a string, a number, null, undefined or an object
\* with any of the properties value, id, key, label, of string or other
\* contents, the default extractors return a string.
C17_ExtractorsReturnStrings ==
    ( /\ \/ Applied("defaultValueFn") \/ Applied("defaultLabelFn")
         \/ Applied("part_005 defaultValueFn")
         \/ Applied("part_005 defaultLabelFn")
      /\ last.arg.t # "array" )
    => result.t = "string"

\* C20: optionCompare(x, x) is true for every option x that is a string or
\* an object, and optionCompare(undefined, undefined) is true; so every
\* member of the options passes the membership check of select.
C20_ComparatorReflexive ==
    /\ ( /\ Applied("optionCompare")
         /\ last.arg.e[1] = last.arg.e[2]
         /\ last.arg.e[1].t \in {"string", "object", "undefined"} )
       => result = Str(<<"true">>)
    /\ \A i \in 1..Len(props.options.e) : valid(props.options.e[i])

\* an object option holding NaN, which no === finds equal to itself
C20_Witness ==
    /\ Applied("optionCompare")
    /\ last.arg.e[1] = last.arg.e[2]
    /\ last.arg.e[1].t = "object"
    /\ \E i \in 1..Len(last.arg.e[1].e) : IsNaN(last.arg.e[1].e[i].e[1])
    /\ result = Str(<<"true">>)

\* the elements of the selection that the comparator does not find equal
\* to o, in their order
Remaining(sel, o) ==
    IF sel.t # "array" THEN Undefined
    ELSE Arr(SelectSeq(sel.e,
                LAMBDA el : ~(IF TypeofObject(el) /\ TypeofObject(o)
                              THEN shallowEqualObjects(el, o)
                              ELSE LooseEquals(el, o))))

\* C21: multi mode: deselect(o) invokes onSelection once with the
\* selection minus every element equal to o, the others in their order;
\* it stores that in the local state only when uncontrolled, and leaves
\* menuVisible as it is.
C21_MultiDeselectRemoves ==
    (AfterCall("deselect") /\ props.multi)
    => /\ calls = <<Remaining(value, last.arg)>>
       /\ menuVisible = last.visible
       /\ Of(last.effects, "setMenuVisible") = <<>>
       /\ IF isControlled
          THEN /\ Of(last.effects, "setUncontrolledValue") = <<>>
               /\ (batch = 1 => hookValue = uncontrolledValue)
          ELSE hookValue = Remaining(value, last.arg)

\* the first of two selected options is removed with the menu open
C21_Witness ==
    /\ AfterCall("deselect")
    /\ props.multi /\ ~isControlled
    /\ value = Arr(<<Str(<<"x">>), Str(<<"z">>)>>)
    /\ last.arg = Str(<<"x">>)
    /\ hookValue = Arr(<<Str(<<"z">>)>>)
    /\ last.visible /\ menuVisible

\* C22: single mode: deselect(o) is a no-op for every o, the current
\* selection included: no setter call, no onSelection, no error, the
\* selection and menuVisible as they were; so a tap on the selected row of
\* the menu, which the menu routes to deselect, changes nothing.
C22_SingleDeselectNoOp ==
    (AfterCall("deselect") /\ ~props.multi)
    => /\ last.effects = <<>>
       /\ menuVisible = last.visible
       /\ hookValue = uncontrolledValue
       /\ nextValue = props.value

\* the selected row of the open menu of a default anchor is tapped
C22_Witness ==
    /\ AfterCall("deselect")
    /\ ~props.multi /\ ~props.renderFn
    /\ value = last.arg
    /\ last.visible /\ menuVisible

\* the images of the elements of a selection under an extractor, joined
JoinedBy(F(_), sel) ==
    Str(JoinValues([i \in 1..Len(sel.e) |-> F(sel.e[i])], <<", ">>))

\* C23 as stated: at every render getLabel is labelFn of the selection
\* (single mode) or the labelFn images of its elements joined by ', ' in
\* selection order (multi mode), getValue likewise with valueFn, and both
\* are the empty string when the selection is undefined or empty.
C23_TextsProjectSelection ==
    batch = 0
    => IF value = Undefined
       THEN getLabel = Str(<<>>) /\ getValue = Str(<<>>)
       ELSE IF props.multi
       THEN /\ getLabel = JoinedBy(defaultLabelFn, value)
            /\ getValue = JoinedBy(defaultValueFn, value)
       ELSE /\ getLabel = defaultLabelFn(value)
            /\ getValue = defaultValueFn(value)

\* o is an element of the selection
Holds(sel, o) == sel.t = "array" /\ \E i \in 1..Len(sel.e) : sel.e[i] = o

\* C24 as stated: uncontrolled multi mode: when select(a) and then
\* select(b), for distinct unselected members a and b of options, are
\* called from the callbacks of one render, the selection stored for the
\* next render and the last onSelection payload hold both a and b.
C24_NoSelectionLostToStaleSnapshot ==
    [][ ( /\ AfterCall("select") /\ batch = 1
          /\ props.multi /\ ~isControlled
          /\ Member(last.arg) /\ ~Holds(value, last.arg)
          /\ Calls("select")
          /\ last'.arg # last.arg
          /\ Member(last'.arg) /\ ~Holds(value, last'.arg) )
        => /\ Holds(hookValue', last.arg) /\ Holds(hookValue', last'.arg)
           /\ \E i \in 1..Len(last'.effects) :
                 /\ last'.effects[i].e = "onSelection"
                 /\ Holds(last'.effects[i].v, last.arg)
                 /\ Holds(last'.effects[i].v, last'.arg) ]_vars

\* C25 as stated: with a parent that stores every onSelection payload into
\* value (undefined included) and gives no defaultValue, the selection the
\* component renders is the parent's stored value; after a mount with a
\* defined value and a clearSelected it renders no selection.
C25_RendersParentsValue ==
    (parent = "store" /\ props.defaultValue = Undefined /\ batch = 0)
    => /\ value = nextValue
       /\ (nextValue = Undefined => getLabel = Str(<<>>))

\* C26 as stated: a call of select, deselect or clearSelected that raises
\* the TypeError of the assertions has called no setter and has not
\* invoked onSelection.
C26_ThrowingCallChangesNothing ==
    ( /\ ~last.rendered
      /\ last.op \in {"select", "deselect", "clearSelected"}
      /\ Raised )
    => /\ last.effects = <<Throw>>
       /\ menuVisible = last.visible
       /\ (batch = 1 => hookValue = uncontrolledValue)

\* C27 as stated: in every reachable state, also after disabled or
\* renderMenu changed with the menu open, menuVisible implies that disabled
\* is false and renderMenu is not false.
C27_VisibleImpliesEnabled ==
    menuVisible => (~props.disabled /\ props.renderMenu # "false")

\* C28 as stated: every value select, deselect or clearSelected passes to
\* onSelection is undefined, or a member of the current options (single
\* mode), or a sequence of members of the current options (multi mode).
C28_PayloadsAreMembers ==
    (~last.rendered /\ last.op \in {"select", "deselect", "clearSelected"})
    => \A i \in 1..Len(calls) :
          \/ calls[i] = Undefined
          \/ ~props.multi /\ Member(calls[i])
          \/ /\ props.multi /\ calls[i].t = "array"
             /\ \A j \in 1..Len(calls[i].e) : Member(calls[i].e[j])

\* C29 as stated: uncontrolled multi mode: for every selection S made of
\* members of options in options order, S undefined and S empty included,
\* and every member a that is not in S, select(a) and, after a render,
\* deselect(a) restore the selection to exactly S.
C29_RoundTripRestoresAny ==
    AfterCall("deselect") => hookValue = props.defaultValue

\* C29 (amended): the same for every S that is a sequence, the empty one
\* included; from S undefined the round trip ends at the empty sequence.
\* onSelection is handed the restored selection.
C29_RoundTripRestores ==
    /\ AfterCall("deselect")
       => /\ hookValue = (IF props.defaultValue = Undefined THEN Arr(<<>>)
                          ELSE props.defaultValue)
          /\ calls = <<hookValue>>
          /\ menuVisible = last.visible
    /\ AfterCallAndRender("deselect")
       => value = (IF props.defaultValue = Undefined THEN Arr(<<>>)
                   ELSE props.defaultValue)

\* ['x'] of options ['x','y','z']: 'z' selected and deselected
C29_Witness ==
    /\ AfterCallAndRender("deselect")
    /\ props.defaultValue = Arr(<<Str(<<"x">>)>>)
    /\ last.arg = Str(<<"z">>)
    /\ value = Arr(<<Str(<<"x">>)>>)
    /\ menuVisible

\* C30 as stated: multi mode: select(o) of a member o that is already in
\* the selection has one outcome, that of a selection holding further
\* options (onSelection invoked once with a selection holding o,
\* menuVisible as it was), also when the selection is exactly [o].
C30_MultiSelectUniform ==
    ( /\ AfterCall("select") /\ props.multi
      /\ Member(last.arg) /\ Holds(value, last.arg) )
    => /\ Len(calls) = 1
       /\ Holds(calls[1], last.arg)
       /\ menuVisible = last.visible

====
